---- MODULE Spec2Model ----
(***************************************************************************)
(* Model of pg_datanymizer's dump orchestration (cli/pg_datanymizer        *)
(* src/app.rs) and of the PostgreSQL schema inspector (datanymizer_dumper  *)
(* src/postgres/schema_inspector.rs).                                      *)
(*                                                                         *)
(* Spec        : one App::run, step by step, over a small file system.     *)
(* SpecColumns : PgSchemaInspector::get_columns over a small catalog.      *)
(* SpecDeps    : PgSchemaInspector::get_dependencies.                      *)
(* SpecTables  : PgSchemaInspector::get_tables.                            *)
(***************************************************************************)
EXTENDS Integers, Sequences, FiniteSets, TLC

VARIABLES
    \* ---- app.rs ----
    args,          \* value of --dump-transaction on the command line, or NoArg
    options,       \* Options: [file, dump_transaction]
    fs,            \* file system: path -> [exists, writable, content]
    fs0,           \* the file system as it was when run was called
    pc,            \* position inside App::run
    events,        \* collaborators called by run so far, in call order
    sink,          \* sink handed to PgDumper::new
    indicator,     \* indicator handed to PgDumper::new
    isolation,     \* isolation level handed to PgDumper::new
    dump_result,   \* what PgDumper::dump returned
    result,        \* what App::run returned
    \* ---- schema_inspector.rs ----
    catalog,       \* the database's catalog relations
    call,          \* the inspector operation last called, with its argument
    failing,       \* the queries of that call which the server failed
    rows,          \* rows the call's top-level query returned, in order
    ret            \* what the call returned

appVars == <<args, options, fs, fs0, pc, events, sink, indicator, isolation, dump_result, result>>
inspVars == <<catalog, call, failing, rows, ret>>
vars == <<args, options, fs, fs0, pc, events, sink, indicator, isolation, dump_result, result,
          catalog, call, failing, rows, ret>>

None == [tag |-> "None"]
Some(v) == [tag |-> "Some", val |-> v]
Ok(v) == [tag |-> "Ok", val |-> v]
Err(e) == [tag |-> "Err", err |-> e]
Panic(e) == [tag |-> "Panic", msg |-> e]
NotReturned == [tag |-> "Running"]

(***************************************************************************)
(*                               app.rs                                    *)
(***************************************************************************)

TransactionConfig ==
    {"NoTransaction", "ReadUncommitted", "ReadCommitted", "RepeatableRead", "Serializable"}

IsolationLevel == {"ReadUncommitted", "ReadCommitted", "RepeatableRead", "Serializable"}

NoArg == "<absent>"

\* The value of Options::dump_transaction when --dump-transaction is absent.
DefaultDumpTransaction == "ReadCommitted"

\* Options::from_iter, for the --dump-transaction flag.
parse_dump_transaction(arg) == IF arg = NoArg THEN DefaultDumpTransaction ELSE arg

Paths == {"out.sql", "other.sql"}

\* The states one path of the file system can be in before the run.
FileStates ==
    { [exists |-> FALSE, writable |-> TRUE,  content |-> ""],
      [exists |-> FALSE, writable |-> FALSE, content |-> ""],
      [exists |-> TRUE,  writable |-> TRUE,  content |-> "old"],
      [exists |-> TRUE,  writable |-> FALSE, content |-> "old"] }

\* Variant of dump_isolation_level with the RepeatableRead arm returning the
\* neighbouring level.
dump_isolation_level_swapped(opts) ==
    CASE opts.dump_transaction = "NoTransaction"   -> None
      [] opts.dump_transaction = "ReadUncommitted" -> Some("ReadUncommitted")
      [] opts.dump_transaction = "ReadCommitted"   -> Some("ReadCommitted")
      [] opts.dump_transaction = "RepeatableRead"  -> Some("Serializable")
      [] opts.dump_transaction = "Serializable"    -> Some("Serializable")

dump_isolation_level(opts) ==
    CASE opts.dump_transaction = "NoTransaction"   -> None
      [] opts.dump_transaction = "ReadUncommitted" -> Some("ReadUncommitted")
      [] opts.dump_transaction = "ReadCommitted"   -> Some("ReadCommitted")
      [] opts.dump_transaction = "RepeatableRead"  -> Some("RepeatableRead")
      [] opts.dump_transaction = "Serializable"    -> Some("Serializable")

\* Variant of File_create with exclusive creation (OpenOptions::create_new).
File_create_new(files, path) ==
    IF files[path].writable /\ ~files[path].exists
    THEN [res |-> Ok(path),
          fs  |-> [files EXCEPT ![path] = [exists |-> TRUE, writable |-> TRUE, content |-> ""]]]
    ELSE [res |-> Err("io"), fs |-> files]

\* std::fs::File::create: opens the path write-only, creating the file when it
\* is absent and truncating it when it exists; fails when it cannot be opened.
File_create(files, path) ==
    IF files[path].writable
    THEN [res |-> Ok(path),
          fs  |-> [files EXCEPT ![path] = [exists |-> TRUE, writable |-> TRUE, content |-> ""]]]
    ELSE [res |-> Err("io"), fs |-> files]

\* run, lines 33-53: the sink the matched arm hands to PgDumper::new.
sink_for(opts) ==
    IF opts.file.tag = "Some"
    THEN [kind |-> "File", path |-> opts.file.val]
    ELSE [kind |-> "Stdout", path |-> ""]

\* Variant of indicator_for with the interactive indicator in both arms.
indicator_for_console(opts) == "ConsoleIndicator"

\* run, lines 33-53: the indicator the matched arm hands to PgDumper::new.
indicator_for(opts) ==
    IF opts.file.tag = "Some" THEN "ConsoleIndicator" ELSE "SilentIndicator"

\* Variant of Try that drops the error and goes on.
Try_continue(ok, next) == next

\* The ? operator: on failure run returns at once, otherwise it goes on.
Try(ok, next) == IF ok THEN next ELSE "done"

Event(step, ok) == [step |-> step, ok |-> ok]

InspDefault ==
    /\ catalog = <<>>
    /\ call = <<>>
    /\ failing = {}
    /\ rows = <<>>
    /\ ret = NotReturned

Init ==
    /\ args \in TransactionConfig \cup {NoArg}
    /\ options \in [file : {None} \cup {Some(p) : p \in {"out.sql"}},
                    dump_transaction : {parse_dump_transaction(args)}]
    /\ fs \in [Paths -> FileStates]
    /\ fs0 = fs
    /\ pc = "connect"
    /\ events = <<>>
    /\ sink = None
    /\ indicator = None
    /\ isolation = NotReturned
    /\ dump_result = NotReturned
    /\ result = NotReturned
    /\ InspDefault

\* run, line 30: self.connector().connect()?
connect ==
    /\ pc = "connect"
    /\ \E ok \in BOOLEAN :
          /\ events' = Append(events, Event("connect", ok))
          /\ pc' = Try(ok, "engine")
          /\ result' = IF ok THEN result ELSE Err("connect")
    /\ UNCHANGED <<args, options, fs, fs0, sink, indicator, isolation, dump_result>>
    /\ UNCHANGED inspVars

\* run, line 31: self.engine()?
engine ==
    /\ pc = "engine"
    /\ \E ok \in BOOLEAN :
          /\ events' = Append(events, Event("engine", ok))
          /\ pc' = Try(ok, "sink")
          /\ result' = IF ok THEN result ELSE Err("settings")
    /\ UNCHANGED <<args, options, fs, fs0, sink, indicator, isolation, dump_result>>
    /\ UNCHANGED inspVars

\* run, lines 36-39 and 46-49: the arguments of PgDumper::new, left to right:
\* the isolation level, the sink (File::create(filename)? or io::stdout()),
\* the indicator.
create_sink ==
    /\ pc = "sink"
    /\ isolation' = dump_isolation_level(options)
    /\ LET c == IF options.file.tag = "Some"
                THEN File_create(fs, options.file.val)
                ELSE [res |-> Ok("stdout"), fs |-> fs]
           ok == c.res.tag = "Ok"
       IN /\ fs' = c.fs
          /\ events' = Append(events, Event("sink", ok))
          /\ pc' = Try(ok, "new")
          /\ result' = IF ok THEN result ELSE c.res
          /\ sink' = IF ok THEN Some(sink_for(options)) ELSE sink
          /\ indicator' = IF ok THEN Some(indicator_for(options)) ELSE indicator
    /\ UNCHANGED <<args, options, fs0, dump_result>>
    /\ UNCHANGED inspVars

\* run, lines 34-41 and 44-51: PgDumper::new(...)?
PgDumper_new ==
    /\ pc = "new"
    /\ \E ok \in BOOLEAN :
          /\ events' = Append(events, Event("new", ok))
          /\ pc' = Try(ok, "dump")
          /\ result' = IF ok THEN result ELSE Err("dumper")
    /\ UNCHANGED <<args, options, fs, fs0, sink, indicator, isolation, dump_result>>
    /\ UNCHANGED inspVars

\* run, lines 42 and 52: .dump(&mut connection), whose value run returns.
dump ==
    /\ pc = "dump"
    /\ \E r \in {Ok("dumped"), Err("dump")} :
          /\ events' = Append(events, Event("dump", r.tag = "Ok"))
          /\ dump_result' = r
          /\ result' = r
    /\ fs' = IF sink.tag = "Some" /\ sink.val.kind = "File"
             THEN [fs EXCEPT ![sink.val.path].content = "dump"]
             ELSE fs
    /\ pc' = "done"
    /\ UNCHANGED <<args, options, fs0, sink, indicator, isolation>>
    /\ UNCHANGED inspVars

Next == connect \/ engine \/ create_sink \/ PgDumper_new \/ dump

Spec == Init /\ [][Next]_vars

(***************************************************************************)
(*                         schema_inspector.rs                             *)
(***************************************************************************)

MaxFKeys == 2
MaxColumns == 2
MaxTables == 2
MaxFailures == 2

Schemas == {"a", "b"}
TableNames == {"t", "x"}
AllTables == [schemaname : Schemas, tablename : TableNames]
ConstraintNames == {"fk1", "fk2"}
OwningTables == AllTables \ {[schemaname |-> "b", tablename |-> "x"]}
ReferencedTables == [schemaname : Schemas, tablename : {"x"}]
UdtNames == {"int4", "status"}

RECURSIVE Perms(_)
\* Every order in which the rows of S can come back from the server.
Perms(S) ==
    IF S = {} THEN {<<>>}
    ELSE UNION { { <<x>> \o p : p \in Perms(S \ {x}) } : x \in S }

Q(kind, row, col) == [q |-> kind, row |-> row, col |-> col]

\* ---- the catalog relations the queries read ----

\* information_schema.table_constraints, key_column_usage and
\* constraint_column_usage, as PostgreSQL derives them from the foreign keys
\* fks and from every table's primary key. constraint_column_usage names the
\* referenced table; constraint_of (the constraint's own table) is no column of
\* the view and only keeps the rows of two constraints apart.
table_constraints(fks) ==
    { [constraint_name |-> f.constraint_name, table_schema |-> f.table_schema,
       table_name |-> f.table_name, constraint_type |-> "FOREIGN KEY"] : f \in fks }
    \cup
    { [constraint_name |-> "pk", table_schema |-> t.schemaname,
       table_name |-> t.tablename, constraint_type |-> "PRIMARY KEY"] : t \in AllTables }

key_column_usage(fks) ==
    { [constraint_name |-> f.constraint_name, table_schema |-> f.table_schema,
       table_name |-> f.table_name, column_name |-> f.column_name] : f \in fks }
    \cup
    { [constraint_name |-> "pk", table_schema |-> t.schemaname,
       table_name |-> t.tablename, column_name |-> "id"] : t \in AllTables }

constraint_column_usage(fks) ==
    { [constraint_name |-> f.constraint_name, table_schema |-> f.foreign_table_schema,
       table_name |-> f.foreign_table_name, column_name |-> f.foreign_column_name,
       constraint_of |-> <<f.table_schema, f.table_name>>] : f \in fks }
    \cup
    { [constraint_name |-> "pk", table_schema |-> t.schemaname,
       table_name |-> t.tablename, column_name |-> "id",
       constraint_of |-> <<t.schemaname, t.tablename>>] : t \in AllTables }

\* The foreign keys a database over AllTables can hold: a constraint name is
\* unique among the constraints of one table.
FKCandidates ==
    { [constraint_name |-> c, table_schema |-> o.schemaname, table_name |-> o.tablename,
       column_name |-> "ref_id", foreign_table_schema |-> r.schemaname,
       foreign_table_name |-> r.tablename, foreign_column_name |-> "id"] :
      c \in ConstraintNames, o \in OwningTables, r \in ReferencedTables }

ValidFKeys(fks) ==
    \A f, g \in fks :
        (f.constraint_name = g.constraint_name /\ f.table_schema = g.table_schema
         /\ f.table_name = g.table_name) => f = g

\* pg_catalog.pg_type: typname is unique within one namespace only.
PgTypeUnique ==
    { [typname |-> "int4", typnamespace |-> "pg_catalog", oid |-> 23],
      [typname |-> "status", typnamespace |-> "a", oid |-> 16401] }

PgTypeShared ==
    PgTypeUnique \cup { [typname |-> "status", typnamespace |-> "b", oid |-> 16402] }

ColumnName(pos) ==
    CASE pos = 1 -> "id" [] pos = 2 -> "c2" [] pos = 3 -> "c3" [] pos = 4 -> "c4" [] OTHER -> "c5"

\* information_schema.columns of one table: layout maps each ordinal position to
\* the column's udt_name, or to "dropped".
ColumnsOf(t, layout) ==
    { [table_schema |-> t.schemaname, table_name |-> t.tablename,
       column_name |-> ColumnName(pos), ordinal_position |-> pos,
       data_type |-> IF layout[pos] = "int4" THEN "integer" ELSE "USER-DEFINED",
       udt_name |-> layout[pos]] : pos \in {q \in DOMAIN layout : layout[q] # "dropped"} }

DefaultLayout == [pos \in 1..2 |-> "int4"]

\* pg_catalog.pg_class joined to pg_namespace, with the planner's statistics.
PgClass ==
    { [relname |-> "t", nspname |-> "a", reltuples |-> 100, relpages |-> 3, relation_size |-> 24576],
      [relname |-> "t", nspname |-> "b", reltuples |-> 7,   relpages |-> 0, relation_size |-> 8192],
      [relname |-> "x", nspname |-> "a", reltuples |-> 7,   relpages |-> 2, relation_size |-> 16384],
      [relname |-> "x", nspname |-> "b", reltuples |-> 50,  relpages |-> 1, relation_size |-> 8192] }

\* A catalog; the columns that own a serial sequence are the id columns.
Catalog(tables, fks, cols, types) ==
    [pg_tables |-> tables, fkeys |-> fks, columns |-> cols, pg_type |-> types,
     pg_class |-> PgClass, block_size |-> 8192,
     serial |-> { c \in cols : c.column_name = "id" }]

\* ---- table.rs, as the inspector uses it ----

PgTable_new(tablename, schemaname) ==
    [tablename |-> tablename, schemaname |-> schemaname,
     columns |-> <<>>, sequences |-> <<>>, size |-> 0]

get_name(table) == table.tablename

quoted_full_name(table) == <<table.schemaname, table.tablename>>

set_columns(table, columns) == [table EXCEPT !.columns = columns]

set_sequences(table, sequences) == [table EXCEPT !.sequences = sequences]

\* ---- the queries ----

\* PG_CATALOG_SCHEMA: the rows of pg_tables outside the two reserved schemas.
PG_CATALOG_SCHEMA(cat) ==
    SelectSeq(cat.pg_tables,
              LAMBDA r : r.schemaname # "pg_catalog" /\ r.schemaname # "information_schema")

\* TABLE_FOREIGN_KEYS: the joined rows, as a set (the query states no order).
\* The query has one parameter, the table name; schema is not part of it.
TABLE_FOREIGN_KEYS_join(cat, schema, name) ==
    { j \in { [tc |-> tc, kcu |-> kcu, ccu |-> ccu] :
                tc \in { c \in table_constraints(cat.fkeys) :
                           c.constraint_type = "FOREIGN KEY" /\ c.table_name = name },
                kcu \in key_column_usage(cat.fkeys),
                ccu \in constraint_column_usage(cat.fkeys) } :
        /\ j.tc.constraint_name = j.kcu.constraint_name
        /\ j.tc.table_schema = j.kcu.table_schema
        /\ j.ccu.constraint_name = j.tc.constraint_name
        /\ j.ccu.table_schema = j.tc.table_schema }

\* The SELECT list of TABLE_FOREIGN_KEYS, mapped into a ForeignKey.
ForeignKey(j) ==
    [table_schema |-> j.tc.table_schema, constraint_name |-> j.tc.constraint_name,
     table_name |-> j.tc.table_name, column_name |-> j.kcu.column_name,
     foreign_table_schema |-> j.ccu.table_schema,
     foreign_table_name |-> j.ccu.table_name,
     foreign_column_name |-> j.ccu.column_name]

TABLE_FOREIGN_KEYS(cat, table) ==
    { [i \in 1..Len(p) |-> ForeignKey(p[i])] :
        p \in Perms(TABLE_FOREIGN_KEYS_join(cat, table.schemaname, get_name(table))) }

\* TABLE_COLUMNS_QUERY before ORDER BY: the columns of (schema, table), each
\* joined to every pg_type row whose typname is the column's udt_name.
TABLE_COLUMNS_join(cat, schema, name) ==
    { j \in { [cc |-> cc, pt |-> pt] :
                cc \in { c \in cat.columns : c.table_schema = schema /\ c.table_name = name },
                pt \in cat.pg_type } :
        j.cc.udt_name = j.pt.typname }

RECURSIVE OrderByPosition(_)
\* ORDER BY cc.ordinal_position ASC: every order of the joined rows in which the
\* positions ascend; rows of equal position come in any order.
OrderByPosition(js) ==
    IF js = {} THEN {<<>>}
    ELSE LET m == CHOOSE p \in { j.cc.ordinal_position : j \in js } :
                     \A j \in js : p <= j.cc.ordinal_position
             first == { j \in js : j.cc.ordinal_position = m }
         IN { p \o rest : p \in Perms(first), rest \in OrderByPosition(js \ first) }

\* The SELECT list of TABLE_COLUMNS_QUERY, mapped into a PgColumn.
PgColumn(j) ==
    [name |-> j.cc.column_name, position |-> j.cc.ordinal_position,
     data_type |-> j.cc.data_type, oid |-> j.pt.oid]

\* The row sequences TABLE_COLUMNS_QUERY can return for a table.
TABLE_COLUMNS_QUERY(cat, table) ==
    { [i \in 1..Len(p) |-> PgColumn(p[i])] :
        p \in OrderByPosition(TABLE_COLUMNS_join(cat, table.schemaname, table.tablename)) }

\* Rounding of a float quotient a / b to bigint (to nearest, ties to even).
RoundDiv(a, b) ==
    LET q == a \div b
        r == a % b
    IN IF 2 * r < b THEN q
       ELSE IF 2 * r > b THEN q + 1
       ELSE IF q % 2 = 0 THEN q ELSE q + 1

\* TABLE_SIZE_QUERY: one row, with its len, per pg_class row of that name and
\* namespace.
TABLE_SIZE_QUERY(cat, table) ==
    { [class |-> c,
       len |-> RoundDiv(c.reltuples, IF c.relpages = 0 THEN 1 ELSE c.relpages)
                 * (c.relation_size \div cat.block_size)] :
      c \in { k \in cat.pg_class :
                k.relname = table.tablename /\ k.nspname = table.schemaname } }

\* ---- PgSchemaInspector ----

\* get_columns: the query fails (fail) or its rows, in the order the server
\* returned them (order), are mapped one to one.
get_columns(cat, table, fail, order) ==
    IF fail THEN Err("columns") ELSE Ok(order)

RECURSIVE collect_sequences(_, _, _)
collect_sequences(cat, table, cols) ==
    IF cols = <<>> THEN <<>>
    ELSE LET col == Head(cols)
             has == \E c \in cat.serial :
                       /\ <<c.table_schema, c.table_name>> = quoted_full_name(table)
                       /\ c.column_name = col.name
         IN (IF has THEN << [full_name |-> <<table.schemaname, table.tablename, col.name, "seq">>] >>
             ELSE <<>>) \o collect_sequences(cat, table, Tail(cols))

\* get_sequences: one pg_get_serial_sequence query per column of table.columns;
\* fail says that one of them fails, which a table without columns rules out.
get_sequences(cat, table, fail) ==
    IF fail /\ Len(table.columns) > 0
    THEN Err("sequence")
    ELSE Ok(collect_sequences(cat, table, table.columns))

\* get_table_size: query_one fails unless the query returns exactly one row.
get_table_size(cat, table, fail) ==
    LET found == TABLE_SIZE_QUERY(cat, table) IN
    IF fail \/ Cardinality(found) # 1 THEN Err("size")
    ELSE Ok((CHOOSE r \in found : TRUE).len)

\* Variant of map_table in which a failed column or sequence query aborts too.
map_table_propagating(cat, table, i, fails, order) ==
    LET columns == get_columns(cat, table, Q("columns", i, 0) \in fails, order)
        t1 == IF columns.tag = "Ok" THEN set_columns(table, columns.val) ELSE table
        sequences == get_sequences(cat, t1, Q("sequence", i, 0) \in fails)
        t2 == IF sequences.tag = "Ok" THEN set_sequences(t1, sequences.val) ELSE t1
        size == get_table_size(cat, t2, Q("size", i, 0) \in fails)
    IN IF columns.tag # "Ok" THEN Panic(columns.err)
       ELSE IF sequences.tag # "Ok" THEN Panic(sequences.err)
       ELSE IF size.tag = "Ok" THEN Ok([t2 EXCEPT !.size = size.val])
       ELSE Panic(size.err)

\* The closure of get_tables, lines 66-82, on the table of row i.
map_table(cat, table, i, fails, order) ==
    LET columns == get_columns(cat, table, Q("columns", i, 0) \in fails, order)
        t1 == IF columns.tag = "Ok" THEN set_columns(table, columns.val) ELSE table
        sequences == get_sequences(cat, t1, Q("sequence", i, 0) \in fails)
        t2 == IF sequences.tag = "Ok" THEN set_sequences(t1, sequences.val) ELSE t1
        size == get_table_size(cat, t2, Q("size", i, 0) \in fails)
    IN IF size.tag = "Ok" THEN Ok([t2 EXCEPT !.size = size.val])
       ELSE Panic(size.err)

\* Variant of map_dependency with the size error arm of get_tables (panic!).
map_dependency_panicking(cat, table, i, fails, order) ==
    LET columns == get_columns(cat, table, Q("columns", i, 0) \in fails, order)
        t1 == IF columns.tag = "Ok" THEN set_columns(table, columns.val) ELSE table
        sequences == get_sequences(cat, t1, Q("sequence", i, 0) \in fails)
        t2 == IF sequences.tag = "Ok" THEN set_sequences(t1, sequences.val) ELSE t1
        size == get_table_size(cat, t2, Q("size", i, 0) \in fails)
    IN IF size.tag = "Ok" THEN Ok([t2 EXCEPT !.size = size.val])
       ELSE Panic(size.err)

\* The closure of get_dependencies, lines 118-132, on the table of row i.
map_dependency(cat, table, i, fails, order) ==
    LET columns == get_columns(cat, table, Q("columns", i, 0) \in fails, order)
        t1 == IF columns.tag = "Ok" THEN set_columns(table, columns.val) ELSE table
        sequences == get_sequences(cat, t1, Q("sequence", i, 0) \in fails)
        t2 == IF sequences.tag = "Ok" THEN set_sequences(t1, sequences.val) ELSE t1
        size == get_table_size(cat, t2, Q("size", i, 0) \in fails)
    IN IF size.tag = "Ok" THEN Ok([t2 EXCEPT !.size = size.val])
       ELSE Ok(t2)

\* collect() over the mapped rows: the first panic unwinds out of the call.
collect(mapped) ==
    IF \E i \in 1..Len(mapped) : mapped[i].tag = "Panic"
    THEN mapped[CHOOSE i \in 1..Len(mapped) :
                  /\ mapped[i].tag = "Panic"
                  /\ \A k \in 1..(i - 1) : mapped[k].tag # "Panic"]
    ELSE Ok([i \in 1..Len(mapped) |-> mapped[i].val])

\* get_tables over the rows of PG_CATALOG_SCHEMA; orders[i] is what the columns
\* query of row i returns.
get_tables(cat, fails, orders) ==
    IF Q("tables", 0, 0) \in fails THEN Err("tables")
    ELSE LET found == PG_CATALOG_SCHEMA(cat) IN
         collect([i \in 1..Len(found) |->
                    map_table(cat, PgTable_new(found[i].tablename, found[i].schemaname),
                              i, fails, orders[i])])

\* get_dependencies of table; fkeys is what TABLE_FOREIGN_KEYS returned.
get_dependencies(cat, table, fails, fkeys, orders) ==
    IF Q("fkeys", 0, 0) \in fails THEN Err("fkeys")
    ELSE collect([i \in 1..Len(fkeys) |->
                    map_dependency(cat,
                                   PgTable_new(fkeys[i].foreign_table_name,
                                               fkeys[i].foreign_table_schema),
                                   i, fails, orders[i])])

\* ---- the inspector's callers and the server's choices ----

RECURSIVE SubsetsUpTo(_, _)
SubsetsUpTo(S, k) ==
    IF k = 0 THEN {{}}
    ELSE LET smaller == SubsetsUpTo(S, k - 1)
         IN smaller \cup { T \cup {x} : T \in smaller, x \in S }

RECURSIVE ColumnOrders(_, _)
\* For each table of the sequence ts, one answer of its columns query.
ColumnOrders(cat, ts) ==
    IF ts = <<>> THEN {<<>>}
    ELSE { <<o>> \o rest : o \in TABLE_COLUMNS_QUERY(cat, Head(ts)),
                           rest \in ColumnOrders(cat, Tail(ts)) }

\* The queries issued for the rows, given what each columns query returns.
RowQueries(orders) ==
    { Q("columns", i, 0) : i \in 1..Len(orders) }
    \cup { Q("size", i, 0) : i \in 1..Len(orders) }
    \cup { Q("sequence", i, 0) : i \in { k \in 1..Len(orders) : Len(orders[k]) > 0 } }

Failures(top, orders) ==
    { {Q(top, 0, 0)} } \cup SubsetsUpTo(RowQueries(orders), MaxFailures)

AllTablesSeq ==
    << [schemaname |-> "a", tablename |-> "t"], [schemaname |-> "b", tablename |-> "t"],
       [schemaname |-> "a", tablename |-> "x"], [schemaname |-> "b", tablename |-> "x"] >>

DefaultColumns == UNION { ColumnsOf(t, DefaultLayout) : t \in AllTables }

AppIdle ==
    /\ args = NoArg
    /\ options = [file |-> None, dump_transaction |-> DefaultDumpTransaction]
    /\ fs = [p \in Paths |-> [exists |-> FALSE, writable |-> TRUE, content |-> ""]]
    /\ fs0 = fs
    /\ pc = "idle"
    /\ events = <<>>
    /\ sink = None
    /\ indicator = None
    /\ isolation = NotReturned
    /\ dump_result = NotReturned
    /\ result = NotReturned

InspIdle ==
    /\ call = <<>>
    /\ failing = {}
    /\ rows = <<>>
    /\ ret = NotReturned

\* ---- get_dependencies ----

InitDeps ==
    /\ AppIdle
    /\ InspIdle
    /\ \E fks \in SubsetsUpTo(FKCandidates, MaxFKeys) :
          /\ ValidFKeys(fks)
          /\ catalog = Catalog(AllTablesSeq, fks, DefaultColumns, PgTypeUnique)

get_dependencies_call ==
    /\ ret = NotReturned
    /\ \E t \in AllTables :
         LET table == PgTable_new(t.tablename, t.schemaname) IN
         \E fkeys \in TABLE_FOREIGN_KEYS(catalog, table) :
           \E orders \in ColumnOrders(catalog,
                           [i \in 1..Len(fkeys) |->
                              PgTable_new(fkeys[i].foreign_table_name,
                                          fkeys[i].foreign_table_schema)]) :
             \E fails \in Failures("fkeys", orders) :
                /\ call' = [op |-> "get_dependencies", table |-> table]
                /\ failing' = fails
                /\ rows' = IF Q("fkeys", 0, 0) \in fails THEN <<>> ELSE fkeys
                /\ ret' = get_dependencies(catalog, table, fails, fkeys, orders)
    /\ UNCHANGED catalog
    /\ UNCHANGED appVars

NextDeps == get_dependencies_call

SpecDeps == InitDeps /\ [][NextDeps]_vars

\* ---- get_tables ----

SystemTable == [schemaname |-> "pg_catalog", tablename |-> "pg_type"]

\* pg_tables in heap order: some of the user tables and of the system tables.
PgTablesChoices ==
    UNION { Perms(S) : S \in SubsetsUpTo(AllTables \cup {SystemTable}, MaxTables) }

InitTables ==
    /\ AppIdle
    /\ InspIdle
    /\ \E tables \in PgTablesChoices :
          catalog = Catalog(tables, {}, DefaultColumns, PgTypeUnique)

get_tables_call ==
    /\ ret = NotReturned
    /\ LET found == PG_CATALOG_SCHEMA(catalog) IN
       \E orders \in ColumnOrders(catalog,
                       [i \in 1..Len(found) |->
                          PgTable_new(found[i].tablename, found[i].schemaname)]) :
         \E fails \in Failures("tables", orders) :
            /\ call' = [op |-> "get_tables"]
            /\ failing' = fails
            /\ rows' = IF Q("tables", 0, 0) \in fails THEN <<>> ELSE found
            /\ ret' = get_tables(catalog, fails, orders)
    /\ UNCHANGED catalog
    /\ UNCHANGED appVars

NextTables == get_tables_call

SpecTables == InitTables /\ [][NextTables]_vars

\* ---- get_columns ----

Layouts == [1..MaxColumns -> UdtNames \cup {"dropped"}]

InitColumns ==
    /\ AppIdle
    /\ InspIdle
    /\ \E layout \in Layouts, types \in {PgTypeUnique, PgTypeShared} :
          catalog = Catalog(AllTablesSeq, {},
                            ColumnsOf([schemaname |-> "a", tablename |-> "t"], layout)
                              \cup UNION { ColumnsOf(t, DefaultLayout) :
                                             t \in AllTables \ {[schemaname |-> "a", tablename |-> "t"]} },
                            types)

get_columns_call ==
    /\ ret = NotReturned
    /\ \E t \in AllTables :
         LET table == PgTable_new(t.tablename, t.schemaname) IN
         \E order \in TABLE_COLUMNS_QUERY(catalog, table), fail \in BOOLEAN :
            /\ call' = [op |-> "get_columns", table |-> table]
            /\ failing' = IF fail THEN {Q("columns", 0, 0)} ELSE {}
            /\ rows' = IF fail THEN <<>> ELSE order
            /\ ret' = get_columns(catalog, table, fail, order)
    /\ UNCHANGED catalog
    /\ UNCHANGED appVars

NextColumns == get_columns_call

SpecColumns == InitColumns /\ [][NextColumns]_vars

(***************************************************************************)
(*                              Properties                                 *)
(***************************************************************************)

Happened(step) == \E i \in 1..Len(events) : events[i].step = step

ExpectedIsolation(arg) ==
    CASE arg = NoArg -> Some("ReadCommitted")
      [] arg = "NoTransaction" -> None
      [] OTHER -> Some(arg)

WithTransaction(dt) == [file |-> None, dump_transaction |-> dt]

\* C1: each of the five configuration values resolves to the isolation level
\* of the fixed mapping (NoTransaction to none, the other four to the level of
\* the same name), an absent value resolves to read-committed, the mapping has
\* a value for every input and no two inputs share a value.
C1_IsolationMapping ==
    /\ isolation # NotReturned => isolation = ExpectedIsolation(args)
    /\ \A dt \in TransactionConfig :
          dump_isolation_level(WithTransaction(dt))
              \in {None} \cup { Some(l) : l \in IsolationLevel }
    /\ \A d1, d2 \in TransactionConfig :
          d1 # d2 => dump_isolation_level(WithTransaction(d1))
                       # dump_isolation_level(WithTransaction(d2))

C1_Witness ==
    /\ args = "RepeatableRead"
    /\ isolation = Some("RepeatableRead")
    /\ Happened("dump")

RunOrder == <<"connect", "engine", "sink", "new", "dump">>

StepError(step) ==
    CASE step = "connect" -> Err("connect")
      [] step = "engine" -> Err("settings")
      [] step = "sink" -> Err("io")
      [] step = "new" -> Err("dumper")

\* C9: run calls its collaborators in the order connect, engine, sink, dumper
\* construction, export, each at most once and each only after all earlier ones
\* succeeded; when one of the first four fails run returns that error and the
\* export is not invoked; otherwise run returns what the export returned.
C9_ExportOnceInOrder ==
    /\ Len(events) <= Len(RunOrder)
    /\ \A i \in 1..Len(events) : events[i].step = RunOrder[i]
    /\ \A i \in 1..(Len(events) - 1) : events[i].ok
    /\ pc # "done" => result = NotReturned /\ dump_result = NotReturned
    /\ pc = "done" =>
          LET last == events[Len(events)] IN
          IF last.step = "dump"
          THEN result = dump_result /\ result.tag \in {"Ok", "Err"}
          ELSE ~last.ok /\ result = StepError(last.step) /\ dump_result = NotReturned

C9_Witness ==
    /\ pc = "done"
    /\ Len(events) = 5
    /\ result = Ok("dumped")

SizeFailed(i) == Q("size", i, 0) \in failing
ColumnsFailed(i) == Q("columns", i, 0) \in failing
SequencesFailed(i) == \E q \in failing : q.q = "sequence" /\ q.row = i

\* C4, as claimed: when a size query fails during get_tables, get_tables
\* returns that error to its caller as an error result.
C4_SizeFailureReturned ==
    (/\ ret # NotReturned
     /\ call.op = "get_tables"
     /\ \E i \in 1..Len(rows) : SizeFailed(i)) => ret.tag = "Err"

OwnForeignKeys(table) ==
    { f \in catalog.fkeys :
        f.table_schema = table.schemaname /\ f.table_name = table.tablename }

\* C5: once the foreign-key query has succeeded, get_dependencies returns one
\* table per foreign-key row, in row order, whatever column, sequence or size
\* query failed; a table whose size query failed keeps the default size.
C5_DependencyFailuresAbsorbed ==
    (/\ ret # NotReturned
     /\ call.op = "get_dependencies"
     /\ Q("fkeys", 0, 0) \notin failing) =>
        /\ ret.tag = "Ok"
        /\ Len(ret.val) = Len(rows)
        /\ \A i \in 1..Len(rows) :
              /\ ret.val[i].tablename = rows[i].foreign_table_name
              /\ ret.val[i].schemaname = rows[i].foreign_table_schema
              /\ SizeFailed(i) => ret.val[i].size = PgTable_new("", "").size
              /\ ColumnsFailed(i) => ret.val[i].columns = <<>>
              /\ (SequencesFailed(i) \/ ColumnsFailed(i)) => ret.val[i].sequences = <<>>

C5_Witness ==
    /\ call # <<>>
    /\ call.op = "get_dependencies"
    /\ ret.tag = "Ok"
    /\ Len(rows) = 2
    /\ SizeFailed(1)
    /\ ret.val[1].size = PgTable_new("", "").size
    /\ ret.val[1].columns # <<>>
    /\ ~SizeFailed(2)
    /\ ret.val[2].size # PgTable_new("", "").size

\* C6: in get_tables a failed column query or sequence query leaves that table
\* in the result with empty columns (or empty sequences); when no size query
\* fails the result has one table per non-system catalog row, in catalog order.
C6_ListingAbsorbsAttachFailures ==
    (/\ ret # NotReturned
     /\ call.op = "get_tables"
     /\ Q("tables", 0, 0) \notin failing
     /\ \A i \in 1..Len(rows) : ~SizeFailed(i)) =>
        /\ ret.tag = "Ok"
        /\ rows = PG_CATALOG_SCHEMA(catalog)
        /\ Len(ret.val) = Len(rows)
        /\ \A i \in 1..Len(rows) :
              /\ ret.val[i].tablename = rows[i].tablename
              /\ ret.val[i].schemaname = rows[i].schemaname
              /\ ColumnsFailed(i) => ret.val[i].columns = <<>> /\ ret.val[i].sequences = <<>>
              /\ ~ColumnsFailed(i) => ret.val[i].columns # <<>>
              /\ SequencesFailed(i) => ret.val[i].sequences = <<>>
              /\ (~ColumnsFailed(i) /\ ~SequencesFailed(i)) => ret.val[i].sequences # <<>>

C6_Witness ==
    /\ call # <<>>
    /\ call.op = "get_tables"
    /\ ret.tag = "Ok"
    /\ Len(catalog.pg_tables) = 2
    /\ Len(ret.val) = 2
    /\ ColumnsFailed(1)
    /\ SequencesFailed(2)
    /\ ret.val[1].columns = <<>>
    /\ ret.val[2].columns # <<>>
    /\ ret.val[2].sequences = <<>>

\* C7, as claimed: get_dependencies on a table that owns no foreign-key
\* constraint returns the empty sequence (the foreign-key query itself being
\* answered by the server).
C7_NoForeignKeysNoDependencies ==
    (/\ ret # NotReturned
     /\ call.op = "get_dependencies"
     /\ Q("fkeys", 0, 0) \notin failing
     /\ OwnForeignKeys(call.table) = {}) => ret = Ok(<<>>)

\* C8, as claimed: the columns get_columns returns have strictly ascending
\* ordinal positions, so none appears twice.
C8_StrictlyAscending ==
    (/\ ret # NotReturned
     /\ call.op = "get_columns"
     /\ ret.tag = "Ok") =>
        \A i \in 1..(Len(ret.val) - 1) : ret.val[i].position < ret.val[i + 1].position

\* C10, as claimed: every table get_dependencies(T) returns is the referenced
\* table of a foreign key owned by T, T being the (schema, name) pair.
C10_OnlyOwnForeignKeys ==
    (/\ ret # NotReturned
     /\ call.op = "get_dependencies"
     /\ ret.tag = "Ok") =>
        \A i \in 1..Len(ret.val) :
            \E f \in OwnForeignKeys(call.table) :
                /\ f.foreign_table_schema = ret.val[i].schemaname
                /\ f.foreign_table_name = ret.val[i].tablename

====
